---- MODULE Spec2Model ----
(***************************************************************************)
(* Model of organize_roms.py: a single-pass utility that moves the files   *)
(* of one directory into subdirectories named after the first character of *)
(* each file's stem, optionally filtered by extension and region.          *)
(*                                                                         *)
(* Python strings are modelled as sequences of one-character strings, so   *)
(* that str.lower(), str.split(), the in operator, indexing and the        *)
(* ordering used by sorted() are computed rather than assumed.             *)
(***************************************************************************)
EXTENDS Integers, Sequences, FiniteSets, TLC

VARIABLES
    args,      \* Namespace returned by get_args(): ext, region, no_warn
    dirIsDir,  \* whether Path(args.dir).is_dir()
    fs,        \* the directory tree below args.dir: set of [path, kind, id]
    fs0,       \* fs as it was when the current run started
    self,      \* the RomOrganizer fields (extension, region, confirm)
    pc,        \* position of the script
    files,     \* the dict built by get_files, in insertion order
    bi,        \* move_files: index of the current dict item
    fi,        \* move_files: index of the current file of that item
    moved,     \* log of the file.rename calls that returned
    answer,    \* what run()'s confirm_prompt returned in the current run
    runNo,     \* which of the two successive invocations is executing
    prev,      \* how the previous invocation ended
    call,      \* a direct call of one of the pure methods, and its outcome
    default,   \* confirm_prompt: the default parameter
    choices,   \* confirm_prompt: the inputs read so far
    ret        \* confirm_prompt: the value returned

progVars == <<args, dirIsDir, fs, fs0, self, pc, files, bi, fi, moved,
              answer, runNo, prev>>
promptVars == <<default, choices, ret>>
vars == <<args, dirIsDir, fs, fs0, self, pc, files, bi, fi, moved,
          answer, runNo, prev, call, default, choices, ret>>

(***************************************************************************)
(* Bounds of the model.                                                    *)
(***************************************************************************)
MaxFiles == 4
MaxStemLen == 2
MaxReads == 3

(***************************************************************************)
(* Python str over the printable ASCII range (code points 32..126; the     *)
(* grave accent, code point 96, is spelled out).                           *)
(***************************************************************************)
Ascii ==
  << " ", "!", "\"", "#", "$", "%", "&", "'", "(", ")", "*", "+", ",", "-", ".", "/",
     "0", "1", "2", "3", "4", "5", "6", "7", "8", "9", ":", ";", "<", "=", ">", "?",
     "@", "A", "B", "C", "D", "E", "F", "G", "H", "I", "J", "K", "L", "M", "N", "O",
     "P", "Q", "R", "S", "T", "U", "V", "W", "X", "Y", "Z", "[", "\\", "]", "^", "_",
     "grave", "a", "b", "c", "d", "e", "f", "g", "h", "i", "j", "k", "l", "m", "n", "o",
     "p", "q", "r", "s", "t", "u", "v", "w", "x", "y", "z", "{", "|", "}", "~" >>

AsciiSet == {Ascii[i] : i \in 1..Len(Ascii)}

\* ord(c): the code point of a character
RECURSIVE OrdUpTo(_)
OrdUpTo(n) == IF n = 0 THEN <<>> ELSE OrdUpTo(n - 1) @@ (Ascii[n] :> 31 + n)

OrdTable == OrdUpTo(Len(Ascii))

Ord(c) == OrdTable[c]

Chr(n) == Ascii[n - 31]

\* str.isdigit() of one character
isdigit(c) == Ord(c) >= Ord("0") /\ Ord(c) <= Ord("9")

isupper(c) == Ord(c) >= Ord("A") /\ Ord(c) <= Ord("Z")

\* str.isalpha() of one character
isalpha(c) == isupper(c) \/ (Ord(c) >= Ord("a") /\ Ord(c) <= Ord("z"))

LowerChar(c) == IF isupper(c) THEN Chr(Ord(c) + (Ord("a") - Ord("A"))) ELSE c

\* str.lower()
lower(s) == [i \in 1..Len(s) |-> LowerChar(s[i])]

\* Python str less-than: lexicographic by code point
StrLess(a, b) ==
    \E k \in 0..Len(a) :
        /\ k <= Len(b)
        /\ \A j \in 1..k : a[j] = b[j]
        /\ \/ (k = Len(a) /\ k < Len(b))
           \/ (k < Len(a) /\ k < Len(b) /\ Ord(a[k + 1]) < Ord(b[k + 1]))

\* str.find(c) + 1: index of the first occurrence, 0 when absent
Find(s, c) ==
    IF \E i \in 1..Len(s) : s[i] = c
    THEN CHOOSE i \in 1..Len(s) : s[i] = c /\ \A j \in 1..(i - 1) : s[j] # c
    ELSE 0

\* str.rfind(c) + 1: index of the last occurrence, 0 when absent
RFind(s, c) ==
    IF \E i \in 1..Len(s) : s[i] = c
    THEN CHOOSE i \in 1..Len(s) : s[i] = c /\ \A j \in (i + 1)..Len(s) : s[j] # c
    ELSE 0

\* needle in hay
Contains(hay, needle) ==
    \E i \in 0..(Len(hay) - Len(needle)) : SubSeq(hay, i + 1, i + Len(needle)) = needle

\* stem.split(sep="(", maxsplit=1)
split(s, sep) ==
    LET i == Find(s, sep)
    IN  IF i = 0 THEN <<s>> ELSE <<SubSeq(s, 1, i - 1), SubSeq(s, i + 1, Len(s))>>

\* pathlib: PurePath.suffix
suffix(name) ==
    LET i == RFind(name, ".")
    IN  IF 1 < i /\ i < Len(name) THEN SubSeq(name, i, Len(name)) ELSE <<>>

\* pathlib: PurePath.stem
stem(name) ==
    LET i == RFind(name, ".")
    IN  IF 1 < i /\ i < Len(name) THEN SubSeq(name, 1, i - 1) ELSE name

\* Optional[str]
None == [some |-> FALSE, v |-> <<>>]

Some(s) == [some |-> TRUE, v |-> s]

\* truthiness of an Optional[str]
Truthy(o) == o.some /\ o.v # <<>>

(***************************************************************************)
(* get_args: the leading dot is added to --ext when it is missing.         *)
(***************************************************************************)
get_args(ext, reg, no_warn) ==
    [ext |-> IF Truthy(ext) /\ ext.v[1] # "." THEN Some(<<".">> \o ext.v) ELSE ext,
     region |-> reg,
     no_warn |-> no_warn]

(***************************************************************************)
(* RomOrganizer.get_output_dir_name.  filename[0] raises IndexError on the *)
(* empty string.                                                           *)
(***************************************************************************)
Returned(v) == [raised |-> "", value |-> v]

Raised(e) == [raised |-> e, value |-> <<>>]

get_output_dir_name_lowercased(filename) ==
    IF Len(filename) = 0 THEN Raised("IndexError")
    ELSE LET first_char == filename[1]
         IN  IF isdigit(first_char) THEN Returned(<<"0">>)
             ELSE IF isalpha(first_char) THEN Returned(<<LowerChar(first_char)>>)
             ELSE Returned(<<"_">>)

get_output_dir_name(filename) ==
    IF Len(filename) = 0 THEN Raised("IndexError")
    ELSE LET first_char == filename[1]
         IN  IF isdigit(first_char) THEN Returned(<<"0">>)
             ELSE IF isalpha(first_char) THEN Returned(<<first_char>>)
             ELSE Returned(<<"_">>)

(***************************************************************************)
(* RomOrganizer.file_meets_requirements.  The result names the branch that *)
(* decided: the three return-False branches, the final return True, or     *)
(* the AttributeError of None.lower() when no extension was configured.    *)
(***************************************************************************)
search_space_whole_stem(name) == stem(name)

search_space(name) ==
    LET parts == split(stem(name), "(")
    IN  IF Len(parts) > 1 THEN parts[2] ELSE parts[1]

extension_differs(name, extension) == lower(suffix(name)) # lower(extension.v)

file_meets_requirements(file, extension, reg) ==
    IF file.kind # "file" THEN "not_file"
    ELSE IF ~extension.some THEN "AttributeError"
    ELSE IF extension_differs(file.name, extension) THEN "bad_ext"
    ELSE IF Truthy(reg) /\ ~Contains(lower(search_space(file.name)), lower(reg.v))
         THEN "bad_region"
    ELSE "ok"

(***************************************************************************)
(* confirm_prompt: the decision taken on one line of input.                *)
(***************************************************************************)
NoAnswer == "reprompt"

confirm_step_default_ignored(dflt, choice) ==
    IF lower(choice) = <<"n">> THEN "False"
    ELSE IF choice = <<>> \/ lower(choice) = <<"y">> THEN "True"
    ELSE NoAnswer

confirm_step(dflt, choice) ==
    IF (~dflt /\ choice = <<>>) \/ lower(choice) = <<"n">> THEN "False"
    ELSE IF (dflt /\ choice = <<>>) \/ lower(choice) = <<"y">> THEN "True"
    ELSE NoAnswer

(***************************************************************************)
(* The names, extensions, regions and input lines the model draws from.    *)
(***************************************************************************)
N_Apple == <<"A", "p", "p", "l", "e", ".", "t", "x", "t">>

N_apple2 == <<"a", "p", "p", "l", "e", "2", ".", "t", "x", "t">>

N_1943 == <<"1", "9", "4", "3", ".", "t", "x", "t">>

N_1943U == <<"1", "9", "4", "3", ".", "T", "X", "T">>

N_misc == <<"_", "m", "i", "s", "c", ".", "t", "x", "t">>

N_Ant == <<"A", "n", "t", ".", "t", "x", "t">>

N_Sonic == <<"S", "o", "n", "i", "c", " ", "(", "E", "u", "r", "o", "p", "e", ")", ".", "b", "i", "n">>

N_Tour == <<"E", "u", "r", "o", "p", "e", " ", "T", "o", "u", "r", " ", "(", "U", "S", "A", ")", ".", "b", "i", "n">>

N_zipU == <<"g", "a", "m", "e", ".", "Z", "I", "P">>

N_zipx == <<"g", "a", "m", "e", ".", "z", "i", "p", "x">>

N_A == <<"A">>

N_a == <<"a">>

E_txt == <<".", "t", "x", "t">>

E_TXT == <<".", "T", "X", "T">>

E_bin == <<".", "b", "i", "n">>

E_zip == <<".", "z", "i", "p">>

E_txt_nodot == <<"t", "x", "t">>

R_europe == <<"e", "u", "r", "o", "p", "e">>

R_Europe == <<"E", "u", "r", "o", "p", "e">>

R_USA == <<"U", "S", "A">>

I_y == <<"y">>

I_Y == <<"Y">>

I_n == <<"n">>

I_N == <<"N">>

I_x == <<"x">>

I_yes == <<"y", "e", "s">>

I_no == <<"n", "o">>

FileNames == {N_Apple, N_apple2, N_1943, N_1943U, N_misc, N_Ant, N_Sonic, N_Tour}

Extensions == {None, Some(<<>>), Some(E_txt), Some(E_TXT), Some(E_bin), Some(E_zip)}

Regions == {None, Some(<<>>), Some(R_europe), Some(R_Europe), Some(R_USA)}

InputLines == {<<>>, I_y, I_Y, I_n, I_N, I_x, I_yes, I_no}

StemAlphabet == {"A", "a", "z", "7", "_", "(", ".", " "}

\* every string over StemAlphabet of length at most n
RECURSIVE Strings(_)
Strings(n) ==
    IF n = 0 THEN {<<>>}
    ELSE LET shorter == Strings(n - 1)
         IN  shorter \cup {Append(s, c) : s \in shorter, c \in StemAlphabet}

(***************************************************************************)
(* The directory tree.  An entry is [path, kind, id]: path is the sequence *)
(* of names below the scanned directory, kind is file or dir, and id tells *)
(* the entries apart (0 for a directory made by mkdir).                    *)
(***************************************************************************)
N_0 == <<"0">>

N_us == <<"_">>

TopPool ==
    <<[name |-> N_Apple, kind |-> "file"], [name |-> N_apple2, kind |-> "file"],
      [name |-> N_1943, kind |-> "file"], [name |-> N_1943U, kind |-> "file"],
      [name |-> N_misc, kind |-> "file"], [name |-> N_Ant, kind |-> "file"],
      [name |-> N_Sonic, kind |-> "file"],
      [name |-> N_a, kind |-> "file"], [name |-> N_A, kind |-> "dir"]>>

NestedPool ==
    <<[path |-> <<N_A, N_Apple>>, kind |-> "file"],
      [path |-> <<N_A, N_apple2>>, kind |-> "dir"]>>

TopEntry(i) == [path |-> <<TopPool[i].name>>, kind |-> TopPool[i].kind, id |-> i]

NestedEntry(i) ==
    [path |-> NestedPool[i].path, kind |-> NestedPool[i].kind, id |-> Len(TopPool) + i]

Trees ==
    {{TopEntry(i) : i \in T} \cup {NestedEntry(i) : i \in N} :
        <<T, N>> \in {tn \in (SUBSET (1..Len(TopPool))) \X (SUBSET (1..Len(NestedPool))) :
                        /\ Cardinality(tn[1]) <= MaxFiles
                        /\ \A i \in tn[2] :
                              \E j \in tn[1] : /\ TopPool[j].kind = "dir"
                                               /\ TopPool[j].name = NestedPool[i].path[1]}}

Children(tree) == {e \in tree : Len(e.path) = 1}

Exists(tree, p) == \E e \in tree : e.path = p

EntryAt(tree, p) == CHOOSE e \in tree : e.path = p

\* Path.name of an entry
NameOf(e) == e.path[Len(e.path)]

AsFile(e) == [name |-> NameOf(e), kind |-> e.kind]

(***************************************************************************)
(* sorted(self.directory.iterdir(), key=lambda p: p.name.lower()).         *)
(* iterdir() yields the children in an arbitrary order and sorted() is     *)
(* stable, so the scan order is any arrangement of the children in which   *)
(* the keys never decrease: children with equal keys keep the order in     *)
(* which iterdir() happened to yield them.                                 *)
(***************************************************************************)
sort_key(e) == lower(NameOf(e))

RECURSIVE iterdir_unsorted(_)
iterdir_unsorted(S) ==
    IF S = {} THEN {<<>>}
    ELSE UNION {{<<x>> \o t : t \in iterdir_unsorted(S \ {x})} : x \in S}

RECURSIVE sorted_iterdir(_)
sorted_iterdir(S) ==
    IF S = {} THEN {<<>>}
    ELSE LET firsts == {x \in S : \A y \in S : ~StrLess(sort_key(y), sort_key(x))}
         IN  UNION {{<<x>> \o t : t \in sorted_iterdir(S \ {x})} : x \in firsts}

(***************************************************************************)
(* RomOrganizer.get_files: the dict is a sequence of [key, items] in       *)
(* insertion order; items holds the names of the files of the bucket.      *)
(***************************************************************************)
setdefault_append(d, key, name) ==
    IF \E i \in 1..Len(d) : d[i].key = key
    THEN LET i == CHOOSE i \in 1..Len(d) : d[i].key = key
         IN  [d EXCEPT ![i].items = Append(@, name)]
    ELSE Append(d, [key |-> key, items |-> <<name>>])

RECURSIVE get_files_loop(_, _, _, _)
get_files_loop(items, d, extension, reg) ==
    IF items = <<>> THEN Returned(d)
    ELSE LET item == Head(items)
             meets == file_meets_requirements(AsFile(item), extension, reg)
             output_dir_name == get_output_dir_name(stem(NameOf(item)))
         IN  IF meets = "AttributeError" THEN Raised("AttributeError")
             ELSE IF meets # "ok" THEN get_files_loop(Tail(items), d, extension, reg)
             ELSE IF output_dir_name.raised # "" THEN Raised(output_dir_name.raised)
             ELSE get_files_loop(Tail(items),
                                 setdefault_append(d, output_dir_name.value, NameOf(item)),
                                 extension, reg)

get_files(scan, extension, reg) == get_files_loop(scan, <<>>, extension, reg)

(***************************************************************************)
(* The states in which one part of the model is not in use.                *)
(***************************************************************************)
ProgIdle ==
    /\ args = get_args(None, None, TRUE)
    /\ dirIsDir = FALSE
    /\ fs = {}
    /\ fs0 = {}
    /\ self = [extension |-> None, region |-> None, confirm |-> FALSE]
    /\ pc = "off"
    /\ files = <<>>
    /\ bi = 0
    /\ fi = 0
    /\ moved = <<>>
    /\ answer = "none"
    /\ runNo = 0
    /\ prev = "none"

CallIdle == call = [fn |-> "none"]

PromptIdle ==
    /\ default = FALSE
    /\ choices = <<>>
    /\ ret = "off"

(***************************************************************************)
(* The script: __main__, RomOrganizer.__init__, run and move_files.        *)
(***************************************************************************)
RawExts == {None, Some(E_txt_nodot), Some(E_txt), Some(E_bin)}

ProgRegions == {None, Some(R_europe)}

NoSelf == [extension |-> None, region |-> None, confirm |-> FALSE]

Running == {"main", "construct", "run", "confirm", "mkdir", "rename"}

Init ==
    /\ CallIdle
    /\ PromptIdle
    /\ args \in {get_args(e, r, nw) : e \in RawExts, r \in ProgRegions, nw \in BOOLEAN}
    /\ dirIsDir \in BOOLEAN
    /\ fs \in (IF dirIsDir THEN Trees ELSE {{}})
    /\ fs0 = fs
    /\ self = NoSelf
    /\ pc = "main"
    /\ files = <<>>
    /\ bi = 0
    /\ fi = 0
    /\ moved = <<>>
    /\ answer = "none"
    /\ runNo = 1
    /\ prev = "none"

\* __main__: the blanket warning, default answer no
main_warn ==
    /\ pc = "main"
    /\ ~args.no_warn
    /\ \E choice \in InputLines :
          LET r == confirm_step(FALSE, choice)
          IN  pc' = IF r = "True" THEN "construct"
                    ELSE IF r = "False" THEN "exit"
                    ELSE pc
    /\ UNCHANGED <<args, dirIsDir, fs, fs0, self, files, bi, fi, moved, answer,
                   runNo, prev, call, promptVars>>

\* RomOrganizer(directory, args.ext, args.region, not args.no_warn)
construct ==
    /\ pc = "construct" \/ (pc = "main" /\ args.no_warn)
    /\ IF ~dirIsDir
       THEN pc' = "error" /\ self' = self
       ELSE /\ self' = [extension |-> args.ext, region |-> args.region,
                        confirm |-> ~args.no_warn]
            /\ pc' = "run"
    /\ UNCHANGED <<args, dirIsDir, fs, fs0, files, bi, fi, moved, answer,
                   runNo, prev, call, promptVars>>

\* run(), up to the prompt: get_files and the two tests that follow it
after_get_files(d, confirm) ==
    IF d = <<>> THEN "nofiles" ELSE IF confirm THEN "confirm" ELSE "mkdir"

run_get_files ==
    /\ pc = "run"
    /\ \E scan \in sorted_iterdir(Children(fs)) :
          LET r == get_files(scan, self.extension, self.region)
          IN  IF r.raised # ""
              THEN pc' = "error" /\ UNCHANGED <<files, bi, fi>>
              ELSE /\ files' = r.value
                   /\ pc' = after_get_files(r.value, self.confirm)
                   /\ bi' = IF r.value = <<>> THEN 0 ELSE 1
                   /\ fi' = IF r.value = <<>> THEN 0 ELSE 1
    /\ UNCHANGED <<args, dirIsDir, fs, fs0, self, moved, answer, runNo, prev,
                   call, promptVars>>

\* run(): the summary prompt, default answer yes
after_confirm_always_moves(r) == IF r = NoAnswer THEN "confirm" ELSE "mkdir"

after_confirm(r) ==
    IF r = "True" THEN "mkdir" ELSE IF r = "False" THEN "aborted" ELSE "confirm"

run_confirm ==
    /\ pc = "confirm"
    /\ \E choice \in InputLines :
          LET r == confirm_step(TRUE, choice)
          IN  /\ pc' = after_confirm(r)
              /\ answer' = IF r = NoAnswer THEN answer ELSE r
    /\ UNCHANGED <<args, dirIsDir, fs, fs0, self, files, bi, fi, moved,
                   runNo, prev, call, promptVars>>

\* move_files: output_dir.mkdir(exist_ok=True)
mkdir(tree, dir_name) ==
    IF Exists(tree, <<dir_name>>)
    THEN IF EntryAt(tree, <<dir_name>>).kind = "dir"
         THEN Returned(tree)
         ELSE Raised("FileExistsError")
    ELSE Returned(tree \cup {[path |-> <<dir_name>>, kind |-> "dir", id |-> 0]})

move_mkdir ==
    /\ pc = "mkdir"
    /\ LET r == mkdir(fs, files[bi].key)
       IN  IF r.raised # ""
           THEN pc' = "error" /\ fs' = fs
           ELSE pc' = "rename" /\ fs' = r.value
    /\ UNCHANGED <<args, dirIsDir, fs0, self, files, bi, fi, moved, answer,
                   runNo, prev, call, promptVars>>

\* move_files: file.rename(output_dir.joinpath(file.name)).  os.rename
\* replaces an existing file on POSIX and raises FileExistsError on Windows;
\* an existing directory at the target makes it raise on both.  Which of the
\* two the platform does is chosen at the call.
rename_target_keeps_stem_only(dir_name, name) == <<dir_name, stem(name)>>

rename_target(dir_name, name) == <<dir_name, name>>

rename_leaves_source(tree, src, dst, replaces) ==
    LET e == EntryAt(tree, src)
    IN  IF Exists(tree, dst) THEN Raised("FileExistsError")
        ELSE Returned(tree \cup {[e EXCEPT !.path = dst]})

rename(tree, src, dst, replaces) ==
    LET e == EntryAt(tree, src)
    IN  IF Exists(tree, dst)
        THEN IF EntryAt(tree, dst).kind = "dir" THEN Raised("IsADirectoryError")
             ELSE IF replaces
             THEN Returned((tree \ {e, EntryAt(tree, dst)}) \cup {[e EXCEPT !.path = dst]})
             ELSE Raised("FileExistsError")
        ELSE Returned((tree \ {e}) \cup {[e EXCEPT !.path = dst]})

move_rename ==
    /\ pc = "rename"
    /\ \E replaces \in BOOLEAN :
       LET dir_name == files[bi].key
           name == files[bi].items[fi]
           r == rename(fs, <<name>>, rename_target(dir_name, name), replaces)
       IN  IF r.raised # ""
           THEN pc' = "error" /\ UNCHANGED <<fs, bi, fi, moved>>
           ELSE /\ fs' = r.value
                /\ moved' = Append(moved, [name |-> name, dir |-> dir_name, run |-> runNo])
                /\ IF fi < Len(files[bi].items)
                   THEN pc' = "mkdir" /\ bi' = bi /\ fi' = fi + 1
                   ELSE IF bi < Len(files)
                   THEN pc' = "mkdir" /\ bi' = bi + 1 /\ fi' = 1
                   ELSE pc' = "done" /\ bi' = bi /\ fi' = fi
    /\ UNCHANGED <<args, dirIsDir, fs0, self, files, answer, runNo, prev,
                   call, promptVars>>

\* except KeyboardInterrupt: the script stops where it is and exits
interrupt ==
    /\ pc \in Running
    /\ pc' = "interrupted"
    /\ UNCHANGED <<args, dirIsDir, fs, fs0, self, files, bi, fi, moved, answer,
                   runNo, prev, call, promptVars>>

\* after a run that completed, the script is started a second time on the
\* same directory with the same arguments
Completed == {"nofiles", "done"}

rerun ==
    /\ pc \in Completed
    /\ runNo = 1
    /\ runNo' = 2
    /\ prev' = pc
    /\ pc' = "main"
    /\ fs0' = fs
    /\ self' = NoSelf
    /\ files' = <<>>
    /\ bi' = 0
    /\ fi' = 0
    /\ answer' = "none"
    /\ UNCHANGED <<args, dirIsDir, fs, moved, call, promptVars>>

Next ==
    \/ main_warn
    \/ construct
    \/ run_get_files
    \/ run_confirm
    \/ move_mkdir
    \/ move_rename
    \/ interrupt
    \/ rerun

Spec == Init /\ [][Next]_vars

(***************************************************************************)
(* Direct calls of the two pure methods of RomOrganizer.                   *)
(***************************************************************************)
UnitCalls ==
    {[fn |-> "get_output_dir_name", filename |-> s, done |-> FALSE, out |-> Raised("")] :
        s \in Strings(MaxStemLen) \cup {stem(n) : n \in FileNames}}
    \cup
    {[fn |-> "file_meets_requirements", file |-> [name |-> n, kind |-> k],
      extension |-> e, region |-> r, done |-> FALSE, out |-> ""] :
        n \in FileNames \cup {N_zipU, N_zipx, N_a}, k \in {"file", "dir"},
        e \in Extensions, r \in Regions}

UnitInit == ProgIdle /\ PromptIdle /\ call \in UnitCalls

call_get_output_dir_name ==
    /\ call.fn = "get_output_dir_name"
    /\ ~call.done
    /\ call' = [call EXCEPT !.done = TRUE, !.out = get_output_dir_name(call.filename)]
    /\ UNCHANGED <<progVars, promptVars>>

call_file_meets_requirements ==
    /\ call.fn = "file_meets_requirements"
    /\ ~call.done
    /\ call' = [call EXCEPT !.done = TRUE,
                            !.out = file_meets_requirements(call.file, call.extension,
                                                            call.region)]
    /\ UNCHANGED <<progVars, promptVars>>

UnitNext == call_get_output_dir_name \/ call_file_meets_requirements

SpecUnit == UnitInit /\ [][UnitNext]_vars

(***************************************************************************)
(* confirm_prompt on its own: one action per input() that is read.         *)
(***************************************************************************)
PromptInit ==
    /\ ProgIdle
    /\ CallIdle
    /\ default \in BOOLEAN
    /\ choices = <<>>
    /\ ret = NoAnswer

confirm_prompt ==
    /\ ret = NoAnswer
    /\ Len(choices) < MaxReads
    /\ \E choice \in InputLines :
          /\ choices' = Append(choices, choice)
          /\ ret' = confirm_step(default, choice)
    /\ UNCHANGED <<progVars, call, default>>

PromptNext == confirm_prompt

SpecPrompt == PromptInit /\ [][PromptNext]_vars

(***************************************************************************)
(* Claims about the pure methods (checked under SpecUnit) and about        *)
(* confirm_prompt (checked under SpecPrompt).                              *)
(***************************************************************************)
DecimalDigits == {"0", "1", "2", "3", "4", "5", "6", "7", "8", "9"}

Letters == {Chr(n) : n \in 65..90} \cup {Chr(n) : n \in 97..122}

\* C1 (as claimed): get_output_dir_name never fails, on any stem, the empty
\* one included: a leading decimal digit gives 0, a leading letter gives that
\* letter, and every other stem (empty or symbol-leading) gives the
\* underscore.
C1_TotalOverAllStems ==
    (call.fn = "get_output_dir_name" /\ call.done) =>
        /\ call.out.raised = ""
        /\ call.out.value =
             IF call.filename # <<>> /\ Head(call.filename) \in DecimalDigits
             THEN <<"0">>
             ELSE IF call.filename # <<>> /\ Head(call.filename) \in Letters
             THEN <<Head(call.filename)>>
             ELSE <<"_">>

\* C2 (as claimed): for a regular file the extension step passes exactly when
\* no extension is configured or the suffix equals the configured extension
\* compared case-insensitively, and with no extension configured the check
\* neither rejects the file nor fails.
C2_ExtensionStep ==
    (/\ call.fn = "file_meets_requirements"
     /\ call.done
     /\ call.file.kind = "file") =>
        /\ call.out # "AttributeError"
        /\ (call.out \in {"ok", "bad_region"}) <=>
              \/ ~call.extension.some
              \/ /\ Len(suffix(call.file.name)) = Len(call.extension.v)
                 /\ \A i \in 1..Len(call.extension.v) :
                       LowerChar(suffix(call.file.name)[i]) = LowerChar(call.extension.v[i])

\* the part of the stem the region is looked up in, stated from the position
\* of the first opening parenthesis
C3_Space(name) ==
    LET st == stem(name)
        opens == {i \in 1..Len(st) : st[i] = "("}
    IN  IF opens = {} THEN st
        ELSE LET p == CHOOSE i \in opens : \A j \in opens : i <= j
             IN  [k \in 1..(Len(st) - p) |-> st[p + k]]

C3_Occurs(reg, space) ==
    \E o \in 0..(Len(space) - Len(reg)) :
        \A k \in 1..Len(reg) : LowerChar(reg[k]) = LowerChar(space[o + k])

\* C3: when a region filter is set, a file that reaches the region step passes
\* it exactly when the lower-cased region occurs in the lower-cased search
\* space (the stem after its first opening parenthesis, or the whole stem when
\* it has none); Sonic (Europe).bin passes for region europe and
\* Europe Tour (USA).bin does not.
C3_RegionStep ==
    (/\ call.fn = "file_meets_requirements"
     /\ call.done
     /\ Truthy(call.region)
     /\ call.out \in {"ok", "bad_region"}) =>
        /\ (call.out = "ok") <=> C3_Occurs(call.region.v, C3_Space(call.file.name))
        /\ (call.file.name = N_Sonic /\ call.region.v = R_europe) => call.out = "ok"
        /\ (call.file.name = N_Tour /\ call.region.v = R_europe) => call.out = "bad_region"

C3_Witness ==
    /\ call.fn = "file_meets_requirements"
    /\ call.done
    /\ call.file = [name |-> N_Tour, kind |-> "file"]
    /\ call.extension = Some(E_bin)
    /\ call.region = Some(R_europe)
    /\ call.out = "bad_region"

C8_Decisive(choice) == choice \in {<<>>, I_y, I_Y, I_n, I_N}

\* C8: for either default and any sequence of inputs, the value confirm_prompt
\* returns is determined by the first input that is empty, y/Y or n/N: empty
\* gives the default, y/Y gives True, n/N gives False; any other input gives
\* no result and leads to another read, and nothing is read after the
\* deciding input.
C8_FirstDecisiveInput ==
    (ret # "off") =>
        LET D == {i \in 1..Len(choices) : C8_Decisive(choices[i])}
        IN  IF D = {} THEN ret = NoAnswer
            ELSE LET i == CHOOSE i \in D : \A j \in D : i <= j
                 IN  /\ i = Len(choices)
                     /\ ret = IF choices[i] = <<>>
                              THEN (IF default THEN "True" ELSE "False")
                              ELSE IF choices[i] \in {I_y, I_Y} THEN "True"
                              ELSE "False"

C8_Witness ==
    /\ default
    /\ Len(choices) = 3
    /\ choices[1] = I_yes
    /\ choices[2] = I_no
    /\ choices[3] = <<>>
    /\ ret = "True"

(***************************************************************************)
(* Claims about a run of the script (checked under Spec).                  *)
(***************************************************************************)
\* the dict as a mapping: dict equality does not depend on insertion order
FilesAsMap == {<<files[i].key, files[i].items>> : i \in 1..Len(files)}

RegularFileNames(tree) == {NameOf(e) : e \in {c \in Children(tree) : c.kind = "file"}}

AfterGetFiles == {"confirm", "mkdir", "rename", "done", "aborted"}

C4_Scenario ==
    /\ runNo = 1
    /\ RegularFileNames(fs0) = {N_Apple, N_apple2, N_1943, N_misc}
    /\ self.extension = Some(E_txt)
    /\ self.region = None
    /\ pc \in AfterGetFiles

\* C4 (as claimed): for a directory whose regular files are Apple.txt,
\* apple2.txt, 1943.txt and _misc.txt, with extension .txt and no region,
\* get_files returns exactly three buckets, A -> [Apple.txt, apple2.txt],
\* 0 -> [1943.txt] and _ -> [_misc.txt].
C4_ThreeBuckets ==
    C4_Scenario =>
        FilesAsMap = {<<N_A, <<N_Apple, N_apple2>>>>, <<N_0, <<N_1943>>>>,
                      <<N_us, <<N_misc>>>>}

\* C4 (amended): in that scenario get_files returns exactly four buckets,
\* 0 -> [1943.txt], _ -> [_misc.txt], A -> [Apple.txt] and a -> [apple2.txt]:
\* the bucket key keeps the case of the first letter, so Apple.txt and
\* apple2.txt are not grouped together.
C4_FourBuckets ==
    C4_Scenario =>
        FilesAsMap = {<<N_0, <<N_1943>>>>, <<N_us, <<N_misc>>>>,
                      <<N_A, <<N_Apple>>>>, <<N_a, <<N_apple2>>>>}

C4_Witness == C4_Scenario /\ pc = "done" /\ Len(files) = 4 /\ Len(moved) = 4

\* C5 (as claimed): when directory/bucket/name already holds a file, the move
\* of that entry fails: no rename onto an existing destination returns, and
\* no file that was in a subdirectory when the run started is replaced.
C5_CollisionFails ==
    /\ \A i \in 1..Len(moved) :
          moved[i].run = runNo => ~Exists(fs0, <<moved[i].dir, moved[i].name>>)
    /\ \A e \in fs0 : (Len(e.path) = 2 /\ e.kind = "file") => e \in fs

\* C6: when the script is run a second time after a run that completed, the
\* second run moves nothing: its get_files selects no file, it never reaches
\* the prompt or move_files, the tree stays as the first run left it, and
\* every file the first run relocated is still at directory/bucket/name.
C6_SecondRunMovesNothing ==
    (runNo = 2 /\ prev \in Completed) =>
        /\ files = <<>>
        /\ pc \notin AfterGetFiles
        /\ fs = fs0
        /\ \A i \in 1..Len(moved) :
              /\ moved[i].run = 1
              /\ \E e \in fs : /\ e.path = <<moved[i].dir, moved[i].name>>
                               /\ e.kind = "file"
              /\ ~Exists(fs, <<moved[i].name>>)

C6_Witness == runNo = 2 /\ prev = "done" /\ pc = "nofiles" /\ Len(moved) >= 2

\* C7: in a run with confirm set, no directory is created and no file is
\* moved before the summary prompt has been answered affirmatively: the tree
\* is as it was at the start of the run until then, move_files is entered
\* only after a yes, and a no ends the run (without error) with the tree
\* unchanged.
C7_NoMoveBeforeYes ==
    self.confirm =>
        /\ (answer # "True") => fs = fs0
        /\ (pc \in {"mkdir", "rename", "done"}) => answer = "True"
        /\ (answer = "False") => (pc = "aborted" /\ fs = fs0)
        /\ (pc = "aborted") => answer = "False"

C7_Witness == self.confirm /\ pc = "aborted" /\ Len(files) >= 2 /\ fs = fs0

\* C9: within each bucket the files are renamed in case-insensitive filename
\* order: of two files of one bucket moved in one run, the one renamed later
\* never has the smaller lower-cased name.
C9_BucketOrder ==
    \A i \in 1..Len(moved) : \A j \in 1..Len(moved) :
        (i < j /\ moved[i].run = moved[j].run /\ moved[i].dir = moved[j].dir) =>
            ~StrLess(lower(moved[j].name), lower(moved[i].name))

C9_Witness ==
    /\ pc = "done"
    /\ \E i \in 1..Len(moved) : \E j \in 1..Len(moved) :
          /\ i < j
          /\ moved[i].dir = N_A /\ moved[i].name = N_Ant
          /\ moved[j].dir = N_A /\ moved[j].name = N_Apple

C10_Bucket(name) ==
    LET c == Head(stem(name))
    IN  IF c \in DecimalDigits THEN N_0 ELSE IF c \in Letters THEN <<c>> ELSE N_us

C10_Moved(name) == \E i \in 1..Len(moved) : moved[i].run = runNo /\ moved[i].name = name

\* C10: in every state of a run, also after an interrupt or a failing move,
\* every entry that was a direct child of the directory when the run started
\* is either at its original path or at directory/bucket-of-its-stem/name;
\* entries that fail the eligibility filter are at their original path; a
\* file whose rename returned is at its destination and every other entry is
\* where it was.
C10_OriginalOrBucket ==
    \A e \in Children(fs0) :
        LET there == [e EXCEPT !.path = <<C10_Bucket(NameOf(e)), NameOf(e)>>]
        IN  /\ (e \in fs) \/ (there \in fs)
            /\ file_meets_requirements(AsFile(e), args.ext, args.region) # "ok" => e \in fs
            /\ C10_Moved(NameOf(e)) => (there \in fs /\ e \notin fs)
            /\ ~C10_Moved(NameOf(e)) => e \in fs

C10_Witness ==
    /\ pc = "error"
    /\ Len(moved) >= 1
    /\ \E e \in Children(fs0) :
          /\ e.kind = "file"
          /\ file_meets_requirements(AsFile(e), args.ext, args.region) = "ok"
          /\ e \in fs

====
